---- MODULE Spec2Model ----
(***************************************************************************)
(* Model of job_agent.py: the keyword matcher contains_keyword, the two    *)
(* source adapters fetch_arbeitnow_jobs and fetch_serpapi_jobs, the report *)
(* writer save_results and the pipeline main.                              *)
(*                                                                         *)
(* A Python str is a sequence of one-character strings.  Values that are   *)
(* not a str are one-element sequences whose element is no character.      *)
(***************************************************************************)
EXTENDS Naturals, Sequences, FiniteSets

VARIABLES
    pc,              \* position of main: "start", "arbeitnow_done", "serpapi_done", "done", "raised"
    serpapi_key,     \* os.environ.get("SERPAPI_KEY")
    http,            \* the requests issued so far, in order
    arbeitnow_jobs,  \* main's local arbeitnow_jobs
    serpapi_jobs,    \* main's local serpapi_jobs
    all_jobs,        \* main's local all_jobs, which save_results sorts in place
    aborted,         \* the adapters whose request ended in a non-200 status or an exception
    fs,              \* the files of the file system: path -> lines
    dirs,            \* the directories of the file system
    clock,           \* index in Dates of the current calendar date
    filepath,        \* save_results's local filepath
    opened,          \* number of files save_results has opened for writing
    kw_pc,           \* position of the stand-alone call of contains_keyword
    kw_text,         \* its argument text
    kw_keywords,     \* its argument keywords
    kw_result        \* its return value

vars == <<pc, serpapi_key, http, arbeitnow_jobs, serpapi_jobs, all_jobs, aborted,
          fs, dirs, clock, filepath, opened, kw_pc, kw_text, kw_keywords, kw_result>>

mainVars == <<pc, serpapi_key, http, arbeitnow_jobs, serpapi_jobs, all_jobs, aborted,
              fs, dirs, clock, filepath, opened>>

kwVars == <<kw_pc, kw_text, kw_keywords, kw_result>>

----------------------------------------------------------------------------
(* Python values *)

\* Python's None; str(None) is "None".
None == <<"<None>">>

\* A key that a JSON object does not have.
Missing == <<"<missing>">>

\* A JSON value that is truthy and not a string (a number, say).
NotAStr == <<"<number>">>

IsStr(v) == v \notin {None, Missing, NotAStr}

UpperCase == <<"A","B","C","D","E","F","G","H","I","J","K","L","M",
               "N","O","P","Q","R","S","T","U","V","W","X","Y","Z">>

LowerCase == <<"a","b","c","d","e","f","g","h","i","j","k","l","m",
               "n","o","p","q","r","s","t","u","v","w","x","y","z">>

Digits == <<"0","1","2","3","4","5","6","7","8","9">>

\* The characters of the model in code point order.
CodePoints == <<" ", "-", ".">> \o Digits \o UpperCase \o <<"_">> \o LowerCase

ord(c) == CHOOSE i \in 1..Len(CodePoints) : CodePoints[i] = c

InSeq(c, s) == \E i \in 1..Len(s) : s[i] = c

\* str.lower() on one character, and on a str.
lower_char(c) ==
    IF InSeq(c, UpperCase)
    THEN LowerCase[CHOOSE i \in 1..Len(UpperCase) : UpperCase[i] = c]
    ELSE c

lower(s) == [i \in 1..Len(s) |-> lower_char(s[i])]

\* The regular expression class \w.
IsWordChar(c) == InSeq(c, UpperCase) \/ InSeq(c, LowerCase) \/ InSeq(c, Digits) \/ c = "_"

\* needle in haystack, for two str.
IsSubstring(needle, haystack) ==
    \E p \in 1..(Len(haystack) + 1) :
        /\ p + Len(needle) - 1 <= Len(haystack)
        /\ \A j \in 1..Len(needle) : haystack[p + j - 1] = needle[j]

\* a < b for two str: lexicographic by code point.
RECURSIVE str_lt(_, _)
str_lt(a, b) ==
    IF b = <<>> THEN FALSE
    ELSE IF a = <<>> THEN TRUE
    ELSE IF a[1] = b[1] THEN str_lt(Tail(a), Tail(b))
    ELSE ord(a[1]) < ord(b[1])

----------------------------------------------------------------------------
(* contains_keyword *)

\* The pattern (?<!\w) k (?!\w) matches in text at position p.
MatchesAt(k, text, p) ==
    /\ p + Len(k) - 1 <= Len(text)
    /\ \A j \in 1..Len(k) : text[p + j - 1] = k[j]
    /\ (p = 1 \/ ~IsWordChar(text[p - 1]))
    /\ (p + Len(k) > Len(text) \/ ~IsWordChar(text[p + Len(k)]))

\* The same pattern without its lookahead (?!\w).
re_search_no_lookahead(k, text) ==
    \E p \in 1..(Len(text) + 1) :
        /\ p + Len(k) - 1 <= Len(text)
        /\ \A j \in 1..Len(k) : text[p + j - 1] = k[j]
        /\ (p = 1 \/ ~IsWordChar(text[p - 1]))

\* re.search(r'(?<!\w)' + re.escape(k) + r'(?!\w)', text)
re_search(k, text) == \E p \in 1..(Len(text) + 1) : MatchesAt(k, text, p)

\* `not text`: None and the empty str are falsy.
Falsy(v) == v = None \/ v = Missing \/ v = <<>>

\* contains_keyword(text, keywords) for text a str or None.
contains_keyword(text, keywords) ==
    IF Falsy(text) THEN FALSE
    ELSE \E i \in 1..Len(keywords) : re_search(lower(keywords[i]), lower(text))

----------------------------------------------------------------------------
(* The stand-alone call of contains_keyword *)

MaxTextLen == 3

MaxKeyLen == 2

KwAlphabet == {"a", "A", "_", " "}

StrUpTo(n) == UNION {[1..m -> KwAlphabet] : m \in 0..n}

KwTexts == StrUpTo(MaxTextLen) \cup {None}

KwKeys == StrUpTo(MaxKeyLen)

KwKeywordLists ==
    {<<>>} \cup {<<k>> : k \in KwKeys}
           \cup {<<k1, k2>> : k1 \in StrUpTo(1), k2 \in KwKeys}

MainIdle ==
    /\ pc = "idle"
    /\ serpapi_key = None
    /\ http = <<>>
    /\ arbeitnow_jobs = <<>>
    /\ serpapi_jobs = <<>>
    /\ all_jobs = <<>>
    /\ aborted = {}
    /\ fs = <<>>
    /\ dirs = {}
    /\ clock = 1
    /\ filepath = None
    /\ opened = 0

InitKw ==
    /\ MainIdle
    /\ kw_pc = "call"
    /\ kw_text \in KwTexts
    /\ kw_keywords \in KwKeywordLists
    /\ kw_result = FALSE

CallContainsKeyword ==
    /\ kw_pc = "call"
    /\ kw_result' = contains_keyword(kw_text, kw_keywords)
    /\ kw_pc' = "returned"
    /\ UNCHANGED <<kw_text, kw_keywords, mainVars>>

NextKw == CallContainsKeyword

SpecKw == InitKw /\ [][NextKw]_vars

----------------------------------------------------------------------------
(* Configuration *)

BASE_KEYWORDS == <<
    <<"D","e","v","S","e","c","O","p","s">>,
    <<"C","l","o","u","d"," ","S","e","c","u","r","i","t","y">>,
    <<"P","l","a","t","f","o","r","m"," ","E","n","g","i","n","e","e","r","i","n","g">>,
    <<"I","n","f","r","a","s","t","r","u","c","t","u","r","e"," ","a","s"," ","C","o","d","e">>,
    <<"A","p","p","l","i","c","a","t","i","o","n"," ","S","e","c","u","r","i","t","y">>,
    <<"T","e","r","r","a","f","o","r","m">>,
    <<"A","W","S">>,
    <<"S","e","c","u","r","i","t","y">>,
    <<"C","y","b","e","r"," ","S","e","c","u","r","i","t","y">>,
    <<"I","n","f","o","r","m","a","t","i","o","n"," ","S","e","c","u","r","i","t","y">>,
    <<"I","T"," ","S","e","c","u","r","i","t","y">> >>

NEGATIVE_KEYWORDS == <<
    <<"M","a","r","k","e","t","i","n","g">>,
    <<"S","a","l","e","s">>,
    <<"H","R">>,
    <<"R","e","c","r","u","i","t","i","n","g">>,
    <<"D","e","s","i","g","n">>,
    <<"L","e","g","a","l">> >>

JOB_RESULTS_DIR == <<"j","o","b","_","r","e","s","u","l","t","s">>

\* The source label of the free job board, and the default of job.get('via', ...).
ArbeitNow == <<"A","r","b","e","i","t","N","o","w">>

GoogleJobs == <<"G","o","o","g","l","e"," ","J","o","b","s">>

\* The two endpoints.
ARBEITNOW_URL == "https://www.arbeitnow.com/api/job-board-api"

SERPAPI_URL == "https://serpapi.com/search.json"

----------------------------------------------------------------------------
(* The responses of the two services *)

ViaLinkedIn == <<"v","i","a"," ","L","i","n","k","e","d","I","n">>

TitleDevSecOps ==
    <<"D","e","v","S","e","c","O","p","s"," ","W","e","r","k","s","t","u","d","e","n","t">>

TitleCloudSecurity ==
    <<"C","l","o","u","d"," ","S","e","c","u","r","i","t","y"," ","I","n","t","e","r","n">>

TitlePaws == <<"P","a","w","s"," ","E","n","g","i","n","e","e","r">>

TitleAws == <<"A","W","S"," ","E","n","g","i","n","e","e","r">>

TitleSecurityMarketing ==
    <<"S","e","c","u","r","i","t","y"," ","M","a","r","k","e","t","i","n","g"," ",
      "S","p","e","c","i","a","l","i","s","t">>

Acme == <<"A","c","m","e">>

Berlin == <<"B","e","r","l","i","n">>

Url1 == <<"u","1">>

Url2 == <<"u","2">>

Url3 == <<"u","3">>

\* A posting of the free job board: a JSON object, a key it lacks being Missing.
ArbeitnowPosting(title, company_name, location, url) ==
    [title |-> title, company_name |-> company_name, location |-> location, url |-> url]

ArbeitnowPostings == {
    ArbeitnowPosting(TitleDevSecOps, Acme, Berlin, Url1),
    ArbeitnowPosting(TitleAws, None, Berlin, Url2),
    ArbeitnowPosting(TitleAws, Missing, Berlin, Url3),
    ArbeitnowPosting(TitlePaws, Acme, Berlin, Url1),
    ArbeitnowPosting(TitleSecurityMarketing, Acme, Berlin, Url2) }

\* A result of the aggregator: related_links lists the 'link' of each entry.
SerpapiPosting(title, company_name, location, via, share_link, related_links) ==
    [title |-> title, company_name |-> company_name, location |-> location,
     via |-> via, share_link |-> share_link, related_links |-> related_links]

SerpapiPostings == {
    SerpapiPosting(TitleCloudSecurity, Acme, Berlin, ViaLinkedIn, Url1, <<>>),
    SerpapiPosting(TitleDevSecOps, Missing, Berlin, Missing, Url2, <<Url3>>),
    SerpapiPosting(TitleAws, Acme, None, None, Url2, <<Missing>>),
    SerpapiPosting(Missing, Acme, Berlin, ViaLinkedIn, Missing, <<>>),
    SerpapiPosting(NotAStr, Acme, Berlin, ViaLinkedIn, Url1, <<>>) }

MaxPostings == 2

ListsUpTo(S, n) == UNION {[1..m -> S] : m \in 0..n}

\* What requests.get does: raise (exc), or return a response with a status
\* and a body that is a JSON object (json) or not, the object having the
\* listing key (has_key) or not.
Response(exc, status, json, has_key, items) ==
    [exc |-> exc, status |-> status, json |-> json, has_key |-> has_key, items |-> items]

Responses(postings) ==
    { Response(TRUE, 0, FALSE, FALSE, <<>>),
      Response(FALSE, 500, FALSE, FALSE, <<>>),
      Response(FALSE, 200, FALSE, FALSE, <<>>),
      Response(FALSE, 200, TRUE, FALSE, <<>>) }
    \cup { Response(FALSE, 200, TRUE, TRUE, items) : items \in ListsUpTo(postings, MaxPostings) }

\* dict.get(key) and dict.get(key, default)
get(value) == IF value = Missing THEN None ELSE value

get_default(value, default) == IF value = Missing THEN default ELSE value

\* What a call returns: its value, and whether it raised instead.
Returned(value) == [raised |-> FALSE, value |-> value]

Raised(value) == [raised |-> TRUE, value |-> value]

----------------------------------------------------------------------------
(* fetch_arbeitnow_jobs *)

JobRecord(title, company, location, url, source) ==
    [title |-> title, company |-> company, location |-> location, url |-> url,
     source |-> source]

\* any(n.lower() in title.lower() for n in NEGATIVE_KEYWORDS)
is_garbage(title) ==
    \E i \in 1..Len(NEGATIVE_KEYWORDS) :
        IsSubstring(lower(NEGATIVE_KEYWORDS[i]), lower(title))

\* The free job board's filter without its negative-keyword test.
arbeitnow_accepts_no_negative(title) == contains_keyword(title, BASE_KEYWORDS)

\* if is_match and not is_garbage
arbeitnow_accepts(title) == contains_keyword(title, BASE_KEYWORDS) /\ ~is_garbage(title)

\* The loop over data.  job['title'] raises KeyError for a missing key,
\* text.lower() and title.lower() raise AttributeError for a title that is
\* no str, and job['company_name'], job['location'], job['url'] raise
\* KeyError for a missing key of an accepted posting.
RECURSIVE arbeitnow_loop(_, _)
arbeitnow_loop(data, filtered) ==
    IF data = <<>> THEN Returned(filtered)
    ELSE LET job == Head(data)
             title == job.title
         IN  IF ~IsStr(title) THEN Raised(filtered)
             ELSE IF arbeitnow_accepts(title)
             THEN IF Missing \in {job.company_name, job.location, job.url}
                  THEN Raised(filtered)
                  ELSE arbeitnow_loop(Tail(data),
                           Append(filtered,
                                  JobRecord(title, job.company_name, job.location,
                                            job.url, ArbeitNow)))
             ELSE arbeitnow_loop(Tail(data), filtered)

\* The body of the try block: the value returned, or raised.
arbeitnow_try(response) ==
    IF response.exc THEN Raised(<<>>)
    ELSE IF response.status # 200 THEN Returned(<<>>)
    ELSE IF ~response.json THEN Raised(<<>>)
    ELSE arbeitnow_loop(IF response.has_key THEN response.items ELSE <<>>, <<>>)

\* fetch_arbeitnow_jobs(): `return filtered` inside the try, `return []` after it.
fetch_arbeitnow_jobs(response) ==
    LET r == arbeitnow_try(response)
    IN  IF r.raised THEN <<>> ELSE r.value

\* Whether the request ended in a non-200 status or an exception.
arbeitnow_failed(response) ==
    \/ arbeitnow_try(response).raised
    \/ (~response.exc /\ response.status # 200)

----------------------------------------------------------------------------
(* fetch_serpapi_jobs *)

\* Get best link: share_link, or the first related link's 'link'.
best_link(job) ==
    LET link == get(job.share_link)
    IN  IF job.related_links # <<>>
        THEN get_default(job.related_links[1], link)
        ELSE link

\* The loop over results, appending to all_jobs.  text.lower() raises
\* AttributeError for a title that is truthy and no str; what was appended
\* before stays in all_jobs.
RECURSIVE serpapi_loop(_, _)
serpapi_loop(results, jobs) ==
    IF results = <<>> THEN Returned(jobs)
    ELSE LET job == Head(results)
             via == get_default(job.via, GoogleJobs)
             title == get(job.title)
         IN  IF title = NotAStr THEN Raised(jobs)
             ELSE IF contains_keyword(title, BASE_KEYWORDS)
             THEN serpapi_loop(Tail(results),
                      Append(jobs,
                             JobRecord(title, get(job.company_name), get(job.location),
                                       best_link(job), via)))
             ELSE serpapi_loop(Tail(results), jobs)

\* The body of the try block: all_jobs at its end, and whether it raised.
serpapi_try(response) ==
    IF response.exc THEN Raised(<<>>)
    ELSE IF response.status # 200 THEN Returned(<<>>)
    ELSE IF ~response.json THEN Raised(<<>>)
    ELSE serpapi_loop(IF response.has_key THEN response.items ELSE <<>>, <<>>)

\* The guard `if api_key is None` in place of `if not api_key`.
serpapi_skipped_none_only(api_key) == api_key = None

\* if not api_key: return []
serpapi_skipped(api_key) == Falsy(api_key)

\* fetch_serpapi_jobs(api_key) after the guard: `return all_jobs` after the try.
fetch_serpapi_jobs(response) == serpapi_try(response).value

serpapi_failed(response) ==
    \/ serpapi_try(response).raised
    \/ (~response.exc /\ response.status # 200)

----------------------------------------------------------------------------
(* save_results *)

\* The calendar dates datetime.now() returns during a run, in order.
Dates == << [y |-> 2026, m |-> 11, d |-> 2], [y |-> 2026, m |-> 11, d |-> 3] >>

\* The date of an earlier run.
Yesterday == [y |-> 2026, m |-> 11, d |-> 1]

two_digits(n) == <<Digits[((n \div 10) % 10) + 1], Digits[(n % 10) + 1]>>

\* strftime("%d%m%y")
strftime_dmy(date) == two_digits(date.d) \o two_digits(date.m) \o two_digits(date.y)

\* strftime('%Y-%m-%d')
strftime_iso(date) ==
    two_digits(date.y \div 100) \o two_digits(date.y) \o <<"-">> \o two_digits(date.m)
        \o <<"-">> \o two_digits(date.d)

\* str(n) for a natural number.
RECURSIVE str_int(_)
str_int(n) ==
    IF n < 10 THEN <<Digits[n + 1]>>
    ELSE str_int(n \div 10) \o <<Digits[(n % 10) + 1]>>

\* str(v) inside an f-string.
py_str(v) == IF v = None THEN <<"N","o","n","e">> ELSE v

\* os.path.join(JOB_RESULTS_DIR, f"{date_str}_Result.txt")
report_path(date) ==
    <<JOB_RESULTS_DIR, strftime_dmy(date) \o <<"_","R","e","s","u","l","t",".","t","x","t">> >>

\* Inserting by descending source.
RECURSIVE insert_descending(_, _)
insert_descending(sorted, job) ==
    IF sorted = <<>> THEN <<job>>
    ELSE IF str_lt(Head(sorted).source, job.source)
         THEN <<job>> \o sorted
         ELSE <<Head(sorted)>> \o insert_descending(Tail(sorted), job)

\* One step of the insertion sort list.sort does on a short list: job goes
\* before the first element whose key is greater, so after its equals.
RECURSIVE insert_by_source(_, _)
insert_by_source(sorted, job) ==
    IF sorted = <<>> THEN <<job>>
    ELSE IF str_lt(job.source, Head(sorted).source)
         THEN <<job>> \o sorted
         ELSE <<Head(sorted)>> \o insert_by_source(Tail(sorted), job)

\* jobs.sort(key=lambda x: x['source']) on a list whose keys are all str.
RECURSIVE sort_by_source(_)
sort_by_source(jobs) ==
    IF jobs = <<>> THEN <<>>
    ELSE insert_by_source(sort_by_source(SubSeq(jobs, 1, Len(jobs) - 1)), jobs[Len(jobs)])

\* The comparison of two keys raises TypeError when one of them is None;
\* a list of two or more elements compares every key.
sort_raises(jobs) == Len(jobs) >= 2 /\ \E i \in 1..Len(jobs) : ~IsStr(jobs[i].source)

\* A line of the report: the literal text of the f-string and the value it
\* interpolates.
Line(label, value) == [label |-> label, value |-> value]

HeaderLines(date, n) ==
    << Line("JOB SEARCH REPORT - ", strftime_iso(date)),
       Line("Total Jobs Found: ", str_int(n)),
       Line("==================================================", <<>>),
       Line("", <<>>) >>

NoJobsLine == Line("No new matching jobs found in the last 24h.", <<>>)

JobBlock(job) ==
    << Line("Role:     ", py_str(job.title)),
       Line("Company:  ", py_str(job.company)),
       Line("Location: ", py_str(job.location)),
       Line("Source:   ", py_str(job.source)),
       Line("Link:     ", py_str(job.url)),
       Line("--------------------------------------------------", <<>>) >>

RECURSIVE JobBlocks(_)
JobBlocks(jobs) == IF jobs = <<>> THEN <<>> ELSE JobBlock(Head(jobs)) \o JobBlocks(Tail(jobs))

\* The lines without the test `if not jobs`.
written_lines_without_notice(date, jobs) ==
    HeaderLines(date, Len(jobs)) \o JobBlocks(jobs)

\* The lines the f.write calls produce, in order.
written_lines(date, jobs) ==
    HeaderLines(date, Len(jobs))
        \o (IF jobs = <<>> THEN <<NoJobsLine>> ELSE <<>>)
        \o JobBlocks(jobs)

\* with open(filepath, "w") as f: the file is created or truncated, and holds
\* the lines written.
open_and_write(files, path, lines) ==
    [p \in DOMAIN files \cup {path} |-> IF p = path THEN lines ELSE files[p]]

----------------------------------------------------------------------------
(* main *)

\* What fetch_arbeitnow_jobs() does for each response of the job board.
arbeitnow_outcome ==
    [r \in Responses(ArbeitnowPostings) |->
        [jobs |-> fetch_arbeitnow_jobs(r), failed |-> arbeitnow_failed(r)]]

\* What fetch_serpapi_jobs(api_key) does, given a key, for each response of
\* the aggregator.
serpapi_outcome ==
    [r \in Responses(SerpapiPostings) |->
        [jobs |-> fetch_serpapi_jobs(r), failed |-> serpapi_failed(r)]]

SerpapiKeys == {None, <<>>, <<"k">>}

\* A posting an earlier run reported.
EarlierJob == JobRecord(TitleAws, Acme, Berlin, Url1, ArbeitNow)

NoFiles == [p \in {} |-> <<>>]

\* The file system main starts in: nothing, or job_results with the reports
\* of earlier runs, of yesterday and possibly of today.
InitialFiles ==
    { [dirs |-> {}, fs |-> NoFiles],
      [dirs |-> {JOB_RESULTS_DIR},
       fs |-> open_and_write(NoFiles, report_path(Yesterday),
                             written_lines(Yesterday, <<>>))],
      [dirs |-> {JOB_RESULTS_DIR},
       fs |-> open_and_write(
                  open_and_write(NoFiles, report_path(Yesterday),
                                 written_lines(Yesterday, <<EarlierJob>>)),
                  report_path(Dates[1]), written_lines(Dates[1], <<EarlierJob>>))] }

KwIdle ==
    /\ kw_pc = "idle"
    /\ kw_text = None
    /\ kw_keywords = <<>>
    /\ kw_result = FALSE

Init ==
    /\ pc = "start"
    /\ serpapi_key \in SerpapiKeys
    /\ http = <<>>
    /\ arbeitnow_jobs = <<>>
    /\ serpapi_jobs = <<>>
    /\ all_jobs = <<>>
    /\ aborted = {}
    /\ \E f \in InitialFiles : fs = f.fs /\ dirs = f.dirs
    /\ clock = 1
    /\ filepath = None
    /\ opened = 0
    /\ KwIdle

\* arbeitnow_jobs = fetch_arbeitnow_jobs()
FetchArbeitnow ==
    /\ pc = "start"
    /\ \E response \in Responses(ArbeitnowPostings) :
        /\ http' = Append(http, [url |-> ARBEITNOW_URL, response |-> response])
        /\ arbeitnow_jobs' = arbeitnow_outcome[response].jobs
        /\ aborted' = IF arbeitnow_outcome[response].failed
                      THEN aborted \cup {"arbeitnow"} ELSE aborted
    /\ pc' = "arbeitnow_done"
    /\ UNCHANGED <<serpapi_key, serpapi_jobs, all_jobs, fs, dirs, clock, filepath,
                   opened, kwVars>>

\* serpapi_jobs = fetch_serpapi_jobs(serpapi_key), no key
SkipSerpapi ==
    /\ pc = "arbeitnow_done"
    /\ serpapi_skipped(serpapi_key)
    /\ serpapi_jobs' = <<>>
    /\ pc' = "serpapi_done"
    /\ UNCHANGED <<serpapi_key, http, arbeitnow_jobs, all_jobs, aborted, fs, dirs,
                   clock, filepath, opened, kwVars>>

\* serpapi_jobs = fetch_serpapi_jobs(serpapi_key), with a key
FetchSerpapi ==
    /\ pc = "arbeitnow_done"
    /\ ~serpapi_skipped(serpapi_key)
    /\ \E response \in Responses(SerpapiPostings) :
        /\ http' = Append(http, [url |-> SERPAPI_URL, response |-> response])
        /\ serpapi_jobs' = serpapi_outcome[response].jobs
        /\ aborted' = IF serpapi_outcome[response].failed
                      THEN aborted \cup {"serpapi"} ELSE aborted
    /\ pc' = "serpapi_done"
    /\ UNCHANGED <<serpapi_key, arbeitnow_jobs, all_jobs, fs, dirs, clock, filepath,
                   opened, kwVars>>

\* save_results(arbeitnow_jobs + serpapi_jobs) when jobs.sort raises TypeError:
\* the directory and the path are made, no file is opened, and the exception
\* leaves main.
SaveResultsRaises ==
    /\ pc = "serpapi_done"
    /\ sort_raises(arbeitnow_jobs \o serpapi_jobs)
    /\ \E now \in clock..Len(Dates) :
        /\ clock' = now
        /\ filepath' = report_path(Dates[now])
    /\ dirs' = dirs \cup {JOB_RESULTS_DIR}
    /\ all_jobs' = arbeitnow_jobs \o serpapi_jobs
    /\ pc' = "raised"
    /\ UNCHANGED <<serpapi_key, http, arbeitnow_jobs, serpapi_jobs, aborted, fs,
                   opened, kwVars>>

\* save_results(arbeitnow_jobs + serpapi_jobs): the date is read once for
\* the path and once more for the header.
SaveResults ==
    /\ pc = "serpapi_done"
    /\ ~sort_raises(arbeitnow_jobs \o serpapi_jobs)
    /\ \E now \in clock..Len(Dates) : \E later \in now..Len(Dates) :
        LET jobs == sort_by_source(arbeitnow_jobs \o serpapi_jobs)
            path == report_path(Dates[now])
        IN  /\ filepath' = path
            /\ all_jobs' = jobs
            /\ fs' = open_and_write(fs, path, written_lines(Dates[later], jobs))
            /\ clock' = later
    /\ dirs' = dirs \cup {JOB_RESULTS_DIR}
    /\ opened' = opened + 1
    /\ pc' = "done"
    /\ UNCHANGED <<serpapi_key, http, arbeitnow_jobs, serpapi_jobs, aborted, kwVars>>

Next == FetchArbeitnow \/ SkipSerpapi \/ FetchSerpapi \/ SaveResultsRaises \/ SaveResults

Spec == Init /\ [][Next]_vars

----------------------------------------------------------------------------
(* The claims *)

\* Two characters are equal up to case.
SameLetter(c, d) ==
    \/ c = d
    \/ \E i \in 1..Len(UpperCase) : {c, d} = {UpperCase[i], LowerCase[i]}

\* K occurs in T, compared case-insensitively, with no word character right
\* before it and none right after it.
OccursAsWord(K, T) ==
    \E p \in 1..(Len(T) + 1) :
        /\ p + Len(K) - 1 <= Len(T)
        /\ \A j \in 1..Len(K) : SameLetter(T[p + j - 1], K[j])
        /\ (p = 1 \/ ~IsWordChar(T[p - 1]))
        /\ (p + Len(K) - 1 = Len(T) \/ ~IsWordChar(T[p + Len(K)]))

\* C1: contains_keyword(T, keywords) is true iff T is a non-empty text and some
\* keyword occurs in T, case-insensitively, neither preceded nor followed by a
\* word character; for an empty or absent T it is false.
C1_WordBoundaryMatch ==
    kw_pc = "returned" =>
        kw_result = ( /\ kw_text # None
                      /\ kw_text # <<>>
                      /\ \E i \in 1..Len(kw_keywords) :
                             OccursAsWord(kw_keywords[i], kw_text) )

\* A keyword found inside a longer word ("a" in "_a") was rejected, and a
\* keyword in another case standing alone was accepted.
C1_Witness ==
    /\ kw_pc = "returned"
    /\ kw_text = <<"_", "a", " ">>
    /\ kw_keywords = <<<<"A">>>>
    /\ kw_result = FALSE

\* The run is past fetch_arbeitnow_jobs / past fetch_serpapi_jobs.
AfterArbeitnow == pc \in {"arbeitnow_done", "serpapi_done", "done", "raised"}

AfterSerpapi == pc \in {"serpapi_done", "done", "raised"}

\* The postings of the job board's response, when it was a listing.
ArbeitnowListing ==
    IF AfterArbeitnow /\ http[1].response.json /\ http[1].response.has_key
    THEN http[1].response.items ELSE <<>>

\* The results of the aggregator's response, when there was one.
SerpapiListing ==
    IF AfterSerpapi /\ Len(http) = 2 /\ http[2].response.json /\ http[2].response.has_key
    THEN http[2].response.items ELSE <<>>

\* The job blocks of a report, read back from its lines: what follows the
\* four header lines, six lines a block.
ReportRecords(lines) ==
    [i \in 1..((Len(lines) - 4) \div 6) |->
        [title    |-> lines[4 + 6 * (i - 1) + 1].value,
         company  |-> lines[4 + 6 * (i - 1) + 2].value,
         location |-> lines[4 + 6 * (i - 1) + 3].value,
         source   |-> lines[4 + 6 * (i - 1) + 4].value,
         url      |-> lines[4 + 6 * (i - 1) + 5].value]]

\* A job record as the report shows it.
Shown(job) ==
    [title |-> py_str(job.title), company |-> py_str(job.company),
     location |-> py_str(job.location), source |-> py_str(job.source),
     url |-> py_str(job.url)]

\* Some keyword of the list occurs in the title as a whole word.
MatchesSomeKeyword(title, keywords) ==
    \E i \in 1..Len(keywords) : OccursAsWord(keywords[i], title)

\* Some keyword of the list is a substring of the title, up to case.
HasSubstringOf(title, keywords) ==
    \E i \in 1..Len(keywords) : \E p \in 1..(Len(title) + 1) :
        /\ p + Len(keywords[i]) - 1 <= Len(title)
        /\ \A j \in 1..Len(keywords[i]) : SameLetter(title[p + j - 1], keywords[i][j])

\* The titles the two services list that are text.
ListedTitles ==
    {t \in {p.title : p \in ArbeitnowPostings} \cup {p.title : p \in SerpapiPostings} :
        IsStr(t)}

\* Those of them that match a positive keyword as a whole word, and those
\* that hold no negative keyword as a substring.
PositiveTitles == {t \in ListedTitles : MatchesSomeKeyword(t, BASE_KEYWORDS)}

CleanTitles == {t \in ListedTitles : ~HasSubstringOf(t, NEGATIVE_KEYWORDS)}

\* C2: every record of the written report has a title that matches a positive
\* keyword as a whole word, and every record the free job-board adapter
\* returns has, besides, a title with no negative keyword as a substring.
C2_OnlyMatchingTitles ==
    /\ \A i \in 1..Len(arbeitnow_jobs) :
           arbeitnow_jobs[i].title \in PositiveTitles \cap CleanTitles
    /\ pc = "done" =>
           \A i \in 1..Len(ReportRecords(fs[filepath])) :
               ReportRecords(fs[filepath])[i].title \in PositiveTitles

\* The job board listed "Security Marketing Specialist" and an acceptable
\* posting; the report shows one job, and it is not the marketing one.
C2_Witness ==
    /\ pc = "done"
    /\ \E i \in 1..Len(ArbeitnowListing) : ArbeitnowListing[i].title = TitleSecurityMarketing
    /\ \E i \in 1..Len(ArbeitnowListing) : ArbeitnowListing[i].title = TitleDevSecOps
    /\ Len(ReportRecords(fs[filepath])) = 1
    /\ ReportRecords(fs[filepath])[1].title = TitleDevSecOps

\* C3: with SERPAPI_KEY absent or empty, fetch_serpapi_jobs returns the empty
\* list and the only request of the run is the one to the free job board.
C3_NoKeyNoRequest ==
    (AfterSerpapi /\ serpapi_key \in {None, <<>>}) =>
        /\ serpapi_jobs = <<>>
        /\ Len(http) = 1
        /\ http[1].url = ARBEITNOW_URL

\* A run with SERPAPI_KEY set to the empty string wrote its report.
C3_Witness ==
    /\ pc = "done"
    /\ serpapi_key = <<>>
    /\ Len(http) = 1
    /\ arbeitnow_jobs # <<>>

\* C4: an adapter whose request ended in a non-success status or in a
\* transport or parsing failure returns the empty list, never a partial one.
C4_FailureGivesEmptyList ==
    /\ "arbeitnow" \in aborted => arbeitnow_jobs = <<>>
    /\ "serpapi" \in aborted => serpapi_jobs = <<>>

\* C5: a posting with a missing or null field does not cost the batch: every
\* posting of a listing whose title passes the filter is returned, its absent
\* fields as None.
C5_BadPostingTolerated ==
    /\ \A i \in 1..Len(ArbeitnowListing) :
           LET job == ArbeitnowListing[i]
           IN  (IsStr(job.title) /\ arbeitnow_accepts(job.title)) =>
                   \E k \in 1..Len(arbeitnow_jobs) :
                       arbeitnow_jobs[k] =
                           JobRecord(job.title, get(job.company_name), get(job.location),
                                     get(job.url), ArbeitNow)
    /\ \A i \in 1..Len(SerpapiListing) :
           LET job == SerpapiListing[i]
           IN  (IsStr(job.title) /\ contains_keyword(job.title, BASE_KEYWORDS)) =>
                   \E k \in 1..Len(serpapi_jobs) :
                       /\ serpapi_jobs[k].title = job.title
                       /\ serpapi_jobs[k].company = get(job.company_name)
                       /\ serpapi_jobs[k].location = get(job.location)

\* The records of a sequence that carry a given source label, in order.
WithSource(records, label) == SelectSeq(records, LAMBDA r : r.source = label)

\* C6: the records of the written report are the stable ascending sort by
\* source of arbeitnow_jobs followed by serpapi_jobs: as many records, in
\* non-decreasing order of source, and for each source label the same
\* records in the same order as in the concatenation.
C6_ReportIsStableSort ==
    pc = "done" =>
        LET merged == [i \in 1..(Len(arbeitnow_jobs) + Len(serpapi_jobs)) |->
                          Shown((arbeitnow_jobs \o serpapi_jobs)[i])]
            reported == ReportRecords(fs[filepath])
        IN  /\ Len(reported) = Len(merged)
            /\ \A i \in 1..Len(reported) : \A j \in (i + 1)..Len(reported) :
                   ~str_lt(reported[j].source, reported[i].source)
            /\ \A i \in 1..Len(merged) :
                   WithSource(reported, merged[i].source)
                       = WithSource(merged, merged[i].source)

\* A report of four jobs, two from each adapter, that the sort reordered and
\* in which two different jobs share the source ArbeitNow.
C6_Witness ==
    /\ pc = "done"
    /\ Len(arbeitnow_jobs) = 2
    /\ arbeitnow_jobs[1] # arbeitnow_jobs[2]
    /\ Len(serpapi_jobs) = 2
    /\ all_jobs # arbeitnow_jobs \o serpapi_jobs

\* The adapters returned the two records of the end-to-end scenario.
EndToEndScenario ==
    /\ pc = "done"
    /\ Len(arbeitnow_jobs) = 1
    /\ arbeitnow_jobs[1].title = TitleDevSecOps
    /\ arbeitnow_jobs[1].source = ArbeitNow
    /\ Len(serpapi_jobs) = 1
    /\ serpapi_jobs[1].title = TitleCloudSecurity
    /\ serpapi_jobs[1].source = ViaLinkedIn

\* C7 as stated: in the end-to-end scenario the report lists the
\* "via LinkedIn" record before the "ArbeitNow" record, and counts 2.
C7_ViaLinkedInListedFirst ==
    EndToEndScenario =>
        /\ fs[filepath][2] = Line("Total Jobs Found: ", <<"2">>)
        /\ Len(ReportRecords(fs[filepath])) = 2
        /\ ReportRecords(fs[filepath])[1].source = ViaLinkedIn
        /\ ReportRecords(fs[filepath])[2].source = ArbeitNow

\* C7 as amended: in the end-to-end scenario the report lists the
\* "ArbeitNow" record before the "via LinkedIn" record, and counts 2.
C7_ArbeitNowListedFirst ==
    EndToEndScenario =>
        /\ fs[filepath][2] = Line("Total Jobs Found: ", <<"2">>)
        /\ Len(ReportRecords(fs[filepath])) = 2
        /\ ReportRecords(fs[filepath])[1].title = TitleDevSecOps
        /\ ReportRecords(fs[filepath])[1].source = ArbeitNow
        /\ ReportRecords(fs[filepath])[2].title = TitleCloudSecurity
        /\ ReportRecords(fs[filepath])[2].source = ViaLinkedIn

\* The end-to-end scenario happened, both services having been asked.
C7_Witness == EndToEndScenario /\ Len(http) = 2

\* The labels of the lines of one job block, in order.
BlockLabels ==
    <<"Role:     ", "Company:  ", "Location: ", "Source:   ", "Link:     ",
      "--------------------------------------------------">>

\* C8: a written report is the header line, the total-count line with the
\* length of the job list, the separator, and one Role/Company/Location/
\* Source/Link block plus separator for each job; the "no jobs found" line
\* is there if and only if the list is empty, and then there is no block.
C8_ReportLayout ==
    pc = "done" =>
        LET lines == fs[filepath]
            n == Len(arbeitnow_jobs) + Len(serpapi_jobs)
        IN  /\ Len(all_jobs) = n
            /\ Len(lines) = IF n = 0 THEN 5 ELSE 4 + 6 * n
            /\ lines[1].label = "JOB SEARCH REPORT - "
            /\ lines[2] = Line("Total Jobs Found: ", <<Digits[n + 1]>>)
            /\ lines[3] = Line("==================================================", <<>>)
            /\ lines[4] = Line("", <<>>)
            /\ (\E i \in 1..Len(lines) : lines[i] = NoJobsLine) <=> n = 0
            /\ n = 0 => lines[5] = NoJobsLine
            /\ \A i \in 1..n : \A k \in 1..6 :
                   lines[4 + 6 * (i - 1) + k].label = BlockLabels[k]
            /\ \A i \in 1..n : ReportRecords(lines)[i] = Shown(all_jobs[i])

\* A report of three jobs was written: four header lines and three blocks.
C8_Witness ==
    /\ pc = "done"
    /\ Len(all_jobs) = 3
    /\ Len(fs[filepath]) = 22

\* C9: an invocation of save_results writes the file of the date and no
\* other: it opens one file, the file holds what this invocation wrote and
\* nothing of what it held, and every other file is as it was.
C9_OneFilePerInvocation ==
    [][pc = "serpapi_done" =>
          /\ opened' = opened + 1
          /\ \E i \in 1..Len(Dates) : filepath' = report_path(Dates[i])
          /\ DOMAIN fs' = DOMAIN fs \cup {filepath'}
          /\ \E i \in 1..Len(Dates) :
                 fs'[filepath'] = written_lines(Dates[i], all_jobs')
          /\ \A p \in DOMAIN fs \ {filepath'} : fs'[p] = fs[p]]_vars

\* C10: every run of main ends with its report written: no exception leaves
\* main, the job board is asked first and the report is written last, and
\* the run has written exactly one file when it stops.
C10_RunCompletes ==
    /\ pc # "raised"
    /\ (Len(http) >= 1 => http[1].url = ARBEITNOW_URL)
    /\ (opened > 0 => pc = "done")
    /\ (pc = "done" => opened = 1 /\ filepath \in DOMAIN fs)

====
